---- MODULE Spec2Model ----
(***************************************************************************)
(* Sweety Stash (streamlit_app.py): the budget and streak engine.          *)
(*                                                                         *)
(* The ledger is the dict st.session_state.app_data.  Money is modelled    *)
(* with integers; a quotient (daily_allowance, todays_savings,             *)
(* daily_used_percent) is an exact fraction [num, den] with den > 0.       *)
(* The fields extra_goals and pet_name play no part in the engine and are  *)
(* left out, as are the category and description of an expense.            *)
(* The wall clock is the day ordinal `now`; a date string "%Y-%m-%d" is    *)
(* the pair <<month, day of month>> that strftime produces, None is <<>>.  *)
(* Every datetime.now() of the source is a separate read of the clock:     *)
(* the functions take one parameter per read.                              *)
(* A session starts with a page run (main).  Streamlit reruns the script   *)
(* after every on_click callback, and the budget form is handled inside a  *)
(* script run (line 594) that ends in st.rerun(): a callback is therefore  *)
(* always followed by a page run, and update_budget_callback always comes  *)
(* right after the tick of lines 374-388.                                  *)
(***************************************************************************)
EXTENDS Integers, Sequences, FiniteSets, TLC

VARIABLES
    now,         \* the calendar date of the wall clock, as a day ordinal
    data,        \* st.session_state.app_data, the ledger
    lastOp,      \* the last operation: its name, outcome and what it computed
    treated_on,  \* the day of the last successful give_treat, or NoTreat
    streak_hist, \* what update_streak did last: the day it last raised the
                 \* streak, how often on that day, the day it last reset it
                 \* (Spec)
    calls,       \* the direct calls of core functions made so far (SpecUnit)
    good_days    \* the run of days in a row whose ticks all saw todays_savings
                 \* >= 0: its length, its last day, whether that day still
                 \* counts (SpecWeek)

vars == <<now, data, lastOp, treated_on, streak_hist, calls, good_days>>

(* ---------------- bounds of the model ---------------- *)
MaxDay == 2
MonthLen == 2
MaxExpenses == 2
MaxCalls == 2

(* ---------------- program constants ---------------- *)
WeeklySpaThreshold == 7
MonthlyVacationThreshold == 30

WeeklySpa == "Weekly Spa"
MonthlyVacation == "Monthly Vacation"
NoReward == "None"
NoDate == <<>>

(* ---------------- calendar ---------------- *)
\* datetime.now().strftime("%Y-%m-%d") for the clock value t
strftime_ymd(t) == <<(t \div MonthLen) + 1, (t % MonthLen) + 1>>

\* datetime.now().strftime("%Y-%m") for the clock value t
strftime_ym(t) == (t \div MonthLen) + 1

\* datetime.strptime(s, "%Y-%m-%d") as a day ordinal
strptime_ymd(s) == (s[1] - 1) * MonthLen + (s[2] - 1)

\* pd.to_datetime(date).strftime('%Y-%m') of a stored date string
date_month(s) == s[1]

\* ordinal of the last day of the month of t (next_month - next_month.day)
last_day_of_month(t) == (t \div MonthLen) * MonthLen + (MonthLen - 1)

(* ---------------- exact quotients ---------------- *)
Frac(n, d) == [num |-> n, den |-> d]
FracNeg(f) == f.num < 0
FracPos(f) == f.num > 0
FracZero(f) == f.num = 0
FracEq(f, g) == f.num * g.den = g.num * f.den
Max(a, b) == IF b > a THEN b ELSE a

(* ---------------- dicts and sums ---------------- *)
EmptyDict == [k \in {} |-> 0]

RECURSIVE SumValues(_)
\* sum(d.values())
SumValues(d) ==
    IF DOMAIN d = {} THEN 0
    ELSE LET k == CHOOSE x \in DOMAIN d : TRUE
         IN d[k] + SumValues([x \in (DOMAIN d) \ {k} |-> d[x]])

RECURSIVE SumAmounts(_)
\* ['amount'].sum() over a selection of expenses
SumAmounts(s) == IF s = <<>> THEN 0 ELSE Head(s).amount + SumAmounts(Tail(s))

Contains(s, x) == \E i \in 1..Len(s) : s[i] = x

(* ---------------- the ledger ---------------- *)
\* _initialize_defaults: the setdefault values
DefaultLedger ==
    [monthly_income |-> 0,
     monthly_savings_goal |-> 0,
     fixed_expenses |-> EmptyDict,
     daily_expenses |-> <<>>,
     saving_streak |-> 0,
     last_streak_date |-> NoDate,
     daily_treat_given |-> FALSE,
     last_treat_date |-> NoDate,
     rewards_unlocked |-> <<>>]

(* ---------------- core logic ---------------- *)
\* rows of daily_expenses that are not big purchases
NotBig(e) == ~e.is_big_purchase

\* get_financial_summary without the max(0, ...) of lines 112-113
get_financial_summary_no_clamp(d, t_today, t_month, t_now) ==
    LET income == d.monthly_income
        fixed == SumValues(d.fixed_expenses)
        goal == d.monthly_savings_goal
        today == strftime_ymd(t_today)
        current_month == strftime_ym(t_month)
        expenses_this_month ==
            SelectSeq(d.daily_expenses, LAMBDA e : date_month(e.date) = current_month)
        total_spent == SumAmounts(SelectSeq(expenses_this_month, NotBig))
        todays_expenses == SelectSeq(d.daily_expenses, LAMBDA e : e.date = today)
        todays_spent == SumAmounts(SelectSeq(todays_expenses, NotBig))
        remaining_days == Max(1, (last_day_of_month(t_now) - t_now) + 1)
        disposable == income - fixed - goal
        daily_allowance ==
            IF remaining_days > 0 THEN Frac(disposable, remaining_days) ELSE Frac(0, 1)
        todays_savings ==
            Frac(daily_allowance.num - todays_spent * daily_allowance.den,
                 daily_allowance.den)
        daily_used_percent ==
            IF FracPos(daily_allowance)
            THEN (IF todays_spent * daily_allowance.den * 100 > 100 * daily_allowance.num
                  THEN Frac(100, 1)
                  ELSE Frac(todays_spent * daily_allowance.den * 100, daily_allowance.num))
            ELSE Frac(0, 1)
    IN [monthly_income |-> income,
        fixed_expenses_sum |-> fixed,
        target_saving |-> goal,
        daily_allowance |-> daily_allowance,
        todays_expenses |-> todays_spent,
        todays_savings |-> todays_savings,
        total_spent_month |-> total_spent,
        daily_used_percent |-> daily_used_percent,
        remaining_days |-> remaining_days]

\* get_financial_summary without the is_big_purchase filter of lines 94-100
get_financial_summary_counts_big(d, t_today, t_month, t_now) ==
    LET income == d.monthly_income
        fixed == SumValues(d.fixed_expenses)
        goal == d.monthly_savings_goal
        today == strftime_ymd(t_today)
        current_month == strftime_ym(t_month)
        expenses_this_month ==
            SelectSeq(d.daily_expenses, LAMBDA e : date_month(e.date) = current_month)
        total_spent == SumAmounts(expenses_this_month)
        todays_expenses == SelectSeq(d.daily_expenses, LAMBDA e : e.date = today)
        todays_spent == SumAmounts(todays_expenses)
        remaining_days == Max(1, (last_day_of_month(t_now) - t_now) + 1)
        disposable == income - fixed - goal
        daily_allowance ==
            IF remaining_days > 0
            THEN (IF disposable > 0 THEN Frac(disposable, remaining_days) ELSE Frac(0, 1))
            ELSE Frac(0, 1)
        todays_savings ==
            Frac(daily_allowance.num - todays_spent * daily_allowance.den,
                 daily_allowance.den)
        daily_used_percent ==
            IF FracPos(daily_allowance)
            THEN (IF todays_spent * daily_allowance.den * 100 > 100 * daily_allowance.num
                  THEN Frac(100, 1)
                  ELSE Frac(todays_spent * daily_allowance.den * 100, daily_allowance.num))
            ELSE Frac(0, 1)
    IN [monthly_income |-> income,
        fixed_expenses_sum |-> fixed,
        target_saving |-> goal,
        daily_allowance |-> daily_allowance,
        todays_expenses |-> todays_spent,
        todays_savings |-> todays_savings,
        total_spent_month |-> total_spent,
        daily_used_percent |-> daily_used_percent,
        remaining_days |-> remaining_days]

\* get_financial_summary, with its three clock reads:
\* t_today (line 79), t_month (line 80), t_now (line 103)
get_financial_summary(d, t_today, t_month, t_now) ==
    LET income == d.monthly_income
        fixed == SumValues(d.fixed_expenses)
        goal == d.monthly_savings_goal
        today == strftime_ymd(t_today)
        current_month == strftime_ym(t_month)
        expenses_this_month ==
            SelectSeq(d.daily_expenses, LAMBDA e : date_month(e.date) = current_month)
        total_spent == SumAmounts(SelectSeq(expenses_this_month, NotBig))
        todays_expenses == SelectSeq(d.daily_expenses, LAMBDA e : e.date = today)
        todays_spent == SumAmounts(SelectSeq(todays_expenses, NotBig))
        remaining_days == Max(1, (last_day_of_month(t_now) - t_now) + 1)
        disposable == income - fixed - goal
        daily_allowance ==
            IF remaining_days > 0
            THEN (IF disposable > 0 THEN Frac(disposable, remaining_days) ELSE Frac(0, 1))
            ELSE Frac(0, 1)
        todays_savings ==
            Frac(daily_allowance.num - todays_spent * daily_allowance.den,
                 daily_allowance.den)
        daily_used_percent ==
            IF FracPos(daily_allowance)
            THEN (IF todays_spent * daily_allowance.den * 100 > 100 * daily_allowance.num
                  THEN Frac(100, 1)
                  ELSE Frac(todays_spent * daily_allowance.den * 100, daily_allowance.num))
            ELSE Frac(0, 1)
    IN [monthly_income |-> income,
        fixed_expenses_sum |-> fixed,
        target_saving |-> goal,
        daily_allowance |-> daily_allowance,
        todays_expenses |-> todays_spent,
        todays_savings |-> todays_savings,
        total_spent_month |-> total_spent,
        daily_used_percent |-> daily_used_percent,
        remaining_days |-> remaining_days]

\* get_pet_status: the mood and the message (the image follows the mood)
get_pet_status(d, financials) ==
    LET savings == financials.todays_savings
        treat == d.daily_treat_given
        first ==
            IF financials.monthly_income = 0
            THEN [mood |-> "Neutral", message |-> "setup"]
            ELSE IF ~FracNeg(savings) /\ financials.todays_expenses > 0
            THEN [mood |-> "Happy", message |-> "on track"]
            ELSE IF FracNeg(savings)
            THEN [mood |-> "Sad", message |-> "over budget"]
            ELSE [mood |-> "Neutral", message |-> "waiting"]
    IN IF treat THEN [mood |-> "Excited", message |-> "yum"] ELSE first

\* check_daily_reset without the date test of line 160
check_daily_reset_always(d, t) ==
    [data |-> [d EXCEPT !.daily_treat_given = FALSE,
                        !.last_treat_date = strftime_ymd(t)],
     changed |-> TRUE]

\* check_daily_reset, with its clock read t (line 159)
check_daily_reset(d, t) ==
    LET today == strftime_ymd(t)
    IN IF d.last_treat_date # today
       THEN [data |-> [d EXCEPT !.daily_treat_given = FALSE, !.last_treat_date = today],
             changed |-> TRUE]
       ELSE [data |-> d, changed |-> FALSE]

\* update_streak without line 184: a counted day is not recorded
update_streak_keeps_date(d, todays_savings, t1, t2, t3) ==
    LET today == strftime_ymd(t1)
        last == d.last_streak_date
    IN IF ~FracNeg(todays_savings)
       THEN IF last # today
            THEN IF last # NoDate
                 THEN IF t2 - strptime_ymd(last) = 1
                      THEN [d EXCEPT !.saving_streak = @ + 1]
                      ELSE IF t3 - strptime_ymd(last) > 1
                           THEN [d EXCEPT !.saving_streak = 1]
                           ELSE d
                 ELSE [d EXCEPT !.saving_streak = 1]
            ELSE d
       ELSE [d EXCEPT !.saving_streak = 0, !.last_streak_date = today]

\* update_streak with ">= 1" at line 178: a gap still extends the streak
update_streak_gap_increments(d, todays_savings, t1, t2, t3) ==
    LET today == strftime_ymd(t1)
        last == d.last_streak_date
    IN IF ~FracNeg(todays_savings)
       THEN IF last # today
            THEN LET streak ==
                         IF last # NoDate
                         THEN IF t2 - strptime_ymd(last) >= 1
                              THEN d.saving_streak + 1
                              ELSE d.saving_streak
                         ELSE 1
                 IN [d EXCEPT !.saving_streak = streak, !.last_streak_date = today]
            ELSE d
       ELSE [d EXCEPT !.saving_streak = 0, !.last_streak_date = today]

\* update_streak whose else branch (lines 187-189) only stamps the date
update_streak_no_reset(d, todays_savings, t1, t2, t3) ==
    LET today == strftime_ymd(t1)
        last == d.last_streak_date
    IN IF ~FracNeg(todays_savings)
       THEN IF last # today
            THEN LET streak ==
                         IF last # NoDate
                         THEN IF t2 - strptime_ymd(last) = 1
                              THEN d.saving_streak + 1
                              ELSE IF t3 - strptime_ymd(last) > 1
                                   THEN 1
                                   ELSE d.saving_streak
                         ELSE 1
                 IN [d EXCEPT !.saving_streak = streak, !.last_streak_date = today]
            ELSE d
       ELSE [d EXCEPT !.last_streak_date = today]

\* update_streak without line 188: a reset does not record its day
update_streak_reset_keeps_date(d, todays_savings, t1, t2, t3) ==
    LET today == strftime_ymd(t1)
        last == d.last_streak_date
    IN IF ~FracNeg(todays_savings)
       THEN IF last # today
            THEN LET streak ==
                         IF last # NoDate
                         THEN IF t2 - strptime_ymd(last) = 1
                              THEN d.saving_streak + 1
                              ELSE IF t3 - strptime_ymd(last) > 1
                                   THEN 1
                                   ELSE d.saving_streak
                         ELSE 1
                 IN [d EXCEPT !.saving_streak = streak, !.last_streak_date = today]
            ELSE d
       ELSE [d EXCEPT !.saving_streak = 0]

\* update_streak whose reset (lines 187-189) forgets the date instead of stamping it
update_streak_clears_date(d, todays_savings, t1, t2, t3) ==
    LET today == strftime_ymd(t1)
        last == d.last_streak_date
    IN IF ~FracNeg(todays_savings)
       THEN IF last # today
            THEN LET streak ==
                         IF last # NoDate
                         THEN IF t2 - strptime_ymd(last) = 1
                              THEN d.saving_streak + 1
                              ELSE IF t3 - strptime_ymd(last) > 1
                                   THEN 1
                                   ELSE d.saving_streak
                         ELSE 1
                 IN [d EXCEPT !.saving_streak = streak, !.last_streak_date = today]
            ELSE d
       ELSE [d EXCEPT !.saving_streak = 0, !.last_streak_date = NoDate]

\* update_streak, with its clock reads t1 (line 169), t2 (line 178), t3 (line 180)
update_streak(d, todays_savings, t1, t2, t3) ==
    LET today == strftime_ymd(t1)
        last == d.last_streak_date
    IN IF ~FracNeg(todays_savings)
       THEN IF last # today
            THEN LET streak ==
                         IF last # NoDate
                         THEN IF t2 - strptime_ymd(last) = 1
                              THEN d.saving_streak + 1
                              ELSE IF t3 - strptime_ymd(last) > 1
                                   THEN 1
                                   ELSE d.saving_streak
                         ELSE 1
                 IN [d EXCEPT !.saving_streak = streak, !.last_streak_date = today]
            ELSE d
       ELSE [d EXCEPT !.saving_streak = 0, !.last_streak_date = today]

\* check_rewards with "elif" at line 203: the first threshold wins
check_rewards_first(d) ==
    LET streak == d.saving_streak
        spa == streak >= WeeklySpaThreshold /\ ~Contains(d.rewards_unlocked, WeeklySpa)
        vac == ~spa /\ streak >= MonthlyVacationThreshold
                    /\ ~Contains(d.rewards_unlocked, MonthlyVacation)
    IN IF spa
       THEN [data |-> [d EXCEPT !.rewards_unlocked = Append(@, WeeklySpa)],
             new_reward |-> WeeklySpa]
       ELSE IF vac
       THEN [data |-> [d EXCEPT !.rewards_unlocked = Append(@, MonthlyVacation)],
             new_reward |-> MonthlyVacation]
       ELSE [data |-> d, new_reward |-> NoReward]

\* check_rewards with ">" for ">=" at lines 200 and 203
check_rewards_late(d) ==
    LET streak == d.saving_streak
        spa == streak > WeeklySpaThreshold /\ ~Contains(d.rewards_unlocked, WeeklySpa)
        r1 == IF spa THEN Append(d.rewards_unlocked, WeeklySpa) ELSE d.rewards_unlocked
        n1 == IF spa THEN WeeklySpa ELSE NoReward
        vac == streak > MonthlyVacationThreshold /\ ~Contains(r1, MonthlyVacation)
        r2 == IF vac THEN Append(r1, MonthlyVacation) ELSE r1
        n2 == IF vac THEN MonthlyVacation ELSE n1
    IN [data |-> [d EXCEPT !.rewards_unlocked = r2], new_reward |-> n2]

\* check_rewards without the "not in rewards" tests
check_rewards_dup(d) ==
    LET streak == d.saving_streak
        spa == streak >= WeeklySpaThreshold
        r1 == IF spa THEN Append(d.rewards_unlocked, WeeklySpa) ELSE d.rewards_unlocked
        n1 == IF spa THEN WeeklySpa ELSE NoReward
        vac == streak >= MonthlyVacationThreshold
        r2 == IF vac THEN Append(r1, MonthlyVacation) ELSE r1
        n2 == IF vac THEN MonthlyVacation ELSE n1
    IN [data |-> [d EXCEPT !.rewards_unlocked = r2], new_reward |-> n2]

\* check_rewards: the ledger after the call and the value returned
check_rewards(d) ==
    LET streak == d.saving_streak
        spa == streak >= WeeklySpaThreshold /\ ~Contains(d.rewards_unlocked, WeeklySpa)
        r1 == IF spa THEN Append(d.rewards_unlocked, WeeklySpa) ELSE d.rewards_unlocked
        n1 == IF spa THEN WeeklySpa ELSE NoReward
        vac == streak >= MonthlyVacationThreshold /\ ~Contains(r1, MonthlyVacation)
        r2 == IF vac THEN Append(r1, MonthlyVacation) ELSE r1
        n2 == IF vac THEN MonthlyVacation ELSE n1
    IN [data |-> [d EXCEPT !.rewards_unlocked = r2], new_reward |-> n2]

(* ---------------- callbacks and the page run ---------------- *)
\* the summary slot of an operation that computed none
NoFin ==
    [monthly_income |-> 0, fixed_expenses_sum |-> 0, target_saving |-> 0,
     daily_allowance |-> Frac(0, 1), todays_expenses |-> 0,
     todays_savings |-> Frac(0, 1), total_spent_month |-> 0,
     daily_used_percent |-> Frac(0, 1), remaining_days |-> 1]

NoPet == [mood |-> "None", message |-> "None"]

\* log_expense_callback that puts the new expense in front of the list (line 229)
log_expense_prepends(d, amount, is_big_purchase, r) ==
    IF amount <= 0
    THEN [data |-> d, result |-> "ValidationError", new_reward |-> NoReward,
          fin |-> NoFin, has_fin |-> FALSE]
    ELSE LET transaction == [date |-> strftime_ymd(r[1]), amount |-> amount,
                             is_big_purchase |-> is_big_purchase]
             d1 == [d EXCEPT !.daily_expenses = <<transaction>> \o @]
             financials == get_financial_summary(d1, r[2], r[3], r[4])
             d2 == update_streak(d1, financials.todays_savings, r[5], r[6], r[7])
             cr == check_rewards(d2)
         IN [data |-> cr.data, result |-> "ok", new_reward |-> cr.new_reward,
             fin |-> financials, has_fin |-> TRUE]

\* log_expense_callback with the test of lines 218-220 moved behind the append
log_expense_validates_late(d, amount, is_big_purchase, r) ==
    LET transaction == [date |-> strftime_ymd(r[1]), amount |-> amount,
                        is_big_purchase |-> is_big_purchase]
        d1 == [d EXCEPT !.daily_expenses = Append(@, transaction)]
        financials == get_financial_summary(d1, r[2], r[3], r[4])
        d2 == update_streak(d1, financials.todays_savings, r[5], r[6], r[7])
        cr == check_rewards(d2)
    IN IF amount <= 0
       THEN [data |-> d1, result |-> "ValidationError", new_reward |-> NoReward,
             fin |-> NoFin, has_fin |-> FALSE]
       ELSE [data |-> cr.data, result |-> "ok", new_reward |-> cr.new_reward,
             fin |-> financials, has_fin |-> TRUE]

\* log_expense_callback; r holds its clock reads in program order:
\* r[1] line 223, r[2..4] get_financial_summary, r[5..7] update_streak
log_expense_callback(d, amount, is_big_purchase, r) ==
    IF amount <= 0
    THEN [data |-> d, result |-> "ValidationError", new_reward |-> NoReward,
          fin |-> NoFin, has_fin |-> FALSE]
    ELSE LET transaction == [date |-> strftime_ymd(r[1]), amount |-> amount,
                             is_big_purchase |-> is_big_purchase]
             d1 == [d EXCEPT !.daily_expenses = Append(@, transaction)]
             financials == get_financial_summary(d1, r[2], r[3], r[4])
             d2 == update_streak(d1, financials.todays_savings, r[5], r[6], r[7])
             cr == check_rewards(d2)
         IN [data |-> cr.data, result |-> "ok", new_reward |-> cr.new_reward,
             fin |-> financials, has_fin |-> TRUE]

\* update_budget_callback without the test of lines 252-254
update_budget_no_sum_check(d, income, goal, fixed_expenses) ==
    IF income < 0 \/ goal < 0
    THEN [data |-> d, result |-> "ValidationError"]
    ELSE [data |-> [d EXCEPT !.monthly_income = income,
                             !.monthly_savings_goal = goal,
                             !.fixed_expenses = fixed_expenses],
          result |-> "ok"]

\* update_budget_callback
update_budget_callback(d, income, goal, fixed_expenses) ==
    IF income < 0 \/ goal < 0
    THEN [data |-> d, result |-> "ValidationError"]
    ELSE IF SumValues(fixed_expenses) > income
    THEN [data |-> d, result |-> "DomainRuleViolation"]
    ELSE [data |-> [d EXCEPT !.monthly_income = income,
                             !.monthly_savings_goal = goal,
                             !.fixed_expenses = fixed_expenses],
          result |-> "ok"]

\* give_treat_callback without the test of lines 269-271
give_treat_no_guard(d, r) ==
    LET financials == get_financial_summary(d, r[1], r[2], r[3])
    IN IF ~FracNeg(financials.todays_savings)
       THEN [data |-> [d EXCEPT !.daily_treat_given = TRUE,
                                !.last_treat_date = strftime_ymd(r[4])],
             result |-> "ok", fin |-> financials, has_fin |-> TRUE]
       ELSE [data |-> d, result |-> "OverBudget", fin |-> financials,
             has_fin |-> TRUE]

\* give_treat_callback that reports the over-budget error but gives the treat
give_treat_ignores_budget(d, r) ==
    IF d.daily_treat_given
    THEN [data |-> d, result |-> "AlreadyTreatedToday", fin |-> NoFin, has_fin |-> FALSE]
    ELSE LET financials == get_financial_summary(d, r[1], r[2], r[3])
             given == [d EXCEPT !.daily_treat_given = TRUE,
                                !.last_treat_date = strftime_ymd(r[4])]
         IN [data |-> given,
             result |-> IF ~FracNeg(financials.todays_savings) THEN "ok" ELSE "OverBudget",
             fin |-> financials, has_fin |-> TRUE]

\* give_treat_callback; r[1..3] are the reads of get_financial_summary,
\* r[4] the read of line 277
give_treat_callback(d, r) ==
    IF d.daily_treat_given
    THEN [data |-> d, result |-> "AlreadyTreatedToday", fin |-> NoFin, has_fin |-> FALSE]
    ELSE LET financials == get_financial_summary(d, r[1], r[2], r[3])
         IN IF ~FracNeg(financials.todays_savings)
            THEN [data |-> [d EXCEPT !.daily_treat_given = TRUE,
                                     !.last_treat_date = strftime_ymd(r[4])],
                  result |-> "ok", fin |-> financials, has_fin |-> TRUE]
            ELSE [data |-> d, result |-> "OverBudget", fin |-> financials,
                  has_fin |-> TRUE]

\* main without the check_rewards call of line 387
main_skips_rewards(d, r) ==
    LET reset == check_daily_reset(d, r[1])
        financials == get_financial_summary(reset.data, r[2], r[3], r[4])
        pet_status == get_pet_status(reset.data, financials)
        d2 == update_streak(reset.data, financials.todays_savings, r[5], r[6], r[7])
    IN [data |-> d2, result |-> "ok", new_reward |-> NoReward,
        fin |-> financials, pet |-> pet_status]

\* main, lines 374-388 (the part of a page run that touches the ledger);
\* r[1] is the read of check_daily_reset, r[2..4] of get_financial_summary,
\* r[5..7] of update_streak.  The value check_rewards returns is dropped by
\* main; it is kept here as new_reward.
main(d, r) ==
    LET reset == check_daily_reset(d, r[1])
        financials == get_financial_summary(reset.data, r[2], r[3], r[4])
        pet_status == get_pet_status(reset.data, financials)
        d2 == update_streak(reset.data, financials.todays_savings, r[5], r[6], r[7])
        cr == check_rewards(d2)
    IN [data |-> cr.data, result |-> "ok", new_reward |-> cr.new_reward,
        fin |-> financials, pet |-> pet_status]

(* ---------------- inputs ---------------- *)
\* the clock values of n consecutive reads: midnight may pass between two reads
ClockReads(n) ==
    { [i \in 1..n |-> IF i < k THEN now ELSE now + 1] :
        k \in (IF now < MaxDay THEN 2..n ELSE {}) \cup {n + 1} }

ExpenseAmounts == {-1, 0, 2}

Fixed2 == [k \in {"Rent", "Phone"} |-> 1]
Fixed5 == [k \in {"Rent", "Phone"} |-> IF k = "Rent" THEN 3 ELSE 2]

\* what the budget form submits: <<income, goal, fixed_expenses>>
BudgetInputs ==
    {<<-1, 0, EmptyDict>>, <<0, -1, EmptyDict>>,
     <<4, 0, Fixed2>>, <<4, 5, Fixed2>>, <<4, 0, Fixed5>>}

\* ledgers the data file can hold when the session starts on day 1: the default
\* ledger, and ledgers left by page runs on each of the preceding days
PersistedLedgers ==
    {DefaultLedger,
     [DefaultLedger EXCEPT !.saving_streak = WeeklySpaThreshold - 2,
                           !.last_streak_date = strftime_ymd(0),
                           !.last_treat_date = strftime_ymd(0)],
     [DefaultLedger EXCEPT !.saving_streak = MonthlyVacationThreshold - 2,
                           !.last_streak_date = strftime_ymd(0),
                           !.last_treat_date = strftime_ymd(0),
                           !.rewards_unlocked = <<WeeklySpa>>]}

NoTreat == -1

\* no tick yet
NoGoodDays == [n |-> 0, day |-> 0, ok |-> TRUE]

\* no update_streak call yet
NoHist == [inc_day |-> NoTreat, inc_n |-> 0, reset_day |-> NoTreat]

\* the record of an update_streak call that read day t as today (line 169),
\* was given `savings` and turned ledger `before` into `after`
StreakHistAfter(h, before, after, savings, t) ==
    LET raised == after.saving_streak > before.saving_streak
    IN [inc_day |-> IF raised THEN t ELSE h.inc_day,
        inc_n |-> IF raised THEN (IF h.inc_day = t THEN h.inc_n + 1 ELSE 1)
                  ELSE h.inc_n,
        reset_day |-> IF FracNeg(savings) THEN t ELSE h.reset_day]

(* ---------------- the application ---------------- *)
InitOp ==
    [op |-> "init", result |-> "ok", new_reward |-> NoReward,
     fin |-> NoFin, has_fin |-> FALSE, pet |-> NoPet, today |-> 1]

Init ==
    /\ now = 1
    /\ data \in PersistedLedgers
    /\ lastOp = InitOp
    /\ treated_on = NoTreat
    /\ streak_hist = NoHist
    /\ good_days = NoGoodDays
    /\ calls = <<>>

\* the buttons and the form exist once main has rendered a page
Rendered == lastOp.op # "init"

\* a callback has run and the script rerun that follows it has not
RerunPending == lastOp.op \in {"log_expense", "update_budget", "give_treat"}

\* a page is rendered and no rerun is due: a button can be clicked
Idle == lastOp.op \in {"page_load", "rollover"}

\* the lines 374-388 of this script run have just been executed (line 594)
InScriptRun == lastOp.op = "page_load"

\* the clock reads of a script run; the rerun after a callback may also
\* start after midnight
RunReads ==
    ClockReads(7) \cup
    (IF RerunPending /\ now < MaxDay THEN {[i \in 1..7 |-> now + 1]} ELSE {})

\* a page run (script rerun): main
PageLoad ==
    \E r \in RunReads :
        \E res \in {main(data, r)} :
           /\ data' = res.data
           /\ now' = r[7]
           /\ lastOp' = [op |-> "page_load", result |-> res.result,
                         new_reward |-> res.new_reward, fin |-> res.fin,
                         has_fin |-> TRUE, pet |-> res.pet, today |-> r[5]]
           /\ streak_hist' = StreakHistAfter(streak_hist, data, res.data,
                                             res.fin.todays_savings, r[5])
           /\ UNCHANGED <<treated_on, calls, good_days>>

\* the "Log Expense" button
LogExpense ==
    \E amount \in ExpenseAmounts, big \in BOOLEAN, r \in ClockReads(7) :
        \E res \in {log_expense_callback(data, amount, big, r)} :
           /\ Idle
           /\ Len(data.daily_expenses) < MaxExpenses
           /\ data' = res.data
           /\ now' = IF res.result = "ok" THEN r[7] ELSE now
           /\ lastOp' = [op |-> "log_expense", result |-> res.result,
                         new_reward |-> res.new_reward, fin |-> res.fin,
                         has_fin |-> res.has_fin, pet |-> NoPet,
                         today |-> IF res.result = "ok" THEN r[5] ELSE now]
           /\ streak_hist' = IF res.result = "ok"
                             THEN StreakHistAfter(streak_hist, data, res.data,
                                                  res.fin.todays_savings, r[5])
                             ELSE streak_hist
           /\ UNCHANGED <<treated_on, calls, good_days>>

\* the budget form
UpdateBudget ==
    \E b \in BudgetInputs :
        \E res \in {update_budget_callback(data, b[1], b[2], b[3])} :
           /\ InScriptRun
           /\ data' = res.data
           /\ lastOp' = [op |-> "update_budget", result |-> res.result,
                         new_reward |-> NoReward, fin |-> NoFin, has_fin |-> FALSE,
                         pet |-> NoPet, today |-> now]
           /\ UNCHANGED <<now, treated_on, streak_hist, calls, good_days>>

\* the treat button
GiveTreat ==
    \E r \in ClockReads(4) :
        \E res \in {give_treat_callback(data, r)} :
           /\ Idle
           /\ data' = res.data
           /\ now' = IF res.result = "ok" THEN r[4]
                     ELSE IF res.has_fin THEN r[3] ELSE now
           /\ lastOp' = [op |-> "give_treat", result |-> res.result,
                         new_reward |-> NoReward, fin |-> res.fin,
                         has_fin |-> res.has_fin, pet |-> NoPet,
                         today |-> IF res.result = "ok" THEN r[4]
                                   ELSE IF res.has_fin THEN r[3] ELSE now]
           /\ treated_on' = IF res.result = "ok" THEN r[4] ELSE treated_on
           /\ UNCHANGED <<streak_hist, calls, good_days>>

\* the calendar date moves on while the app is idle
DayRollover ==
    /\ Idle
    /\ now < MaxDay
    /\ \E t \in (now + 1)..MaxDay : now' = t
    /\ lastOp' = [op |-> "rollover", result |-> "ok", new_reward |-> NoReward,
                  fin |-> NoFin, has_fin |-> FALSE, pet |-> NoPet, today |-> now']
    /\ UNCHANGED <<data, treated_on, streak_hist, calls, good_days>>

Next == PageLoad \/ LogExpense \/ UpdateBudget \/ GiveTreat \/ DayRollover

Spec == Init /\ [][Next]_vars

(* ---------------- the core functions called directly ---------------- *)
\* update_streak, check_rewards and check_daily_reset are functions of the
\* ledger alone, so they are also run on every ledger of a bounded set, under
\* a clock that stands still during a call (all reads of one call return `now`).
StreakSamples == {0, 1, WeeklySpaThreshold - 1, 10, MonthlyVacationThreshold - 1, 35}
SavingsSamples == {Frac(-1, 1), Frac(0, 1), Frac(1, 2)}
RewardLists == {<<>>, <<WeeklySpa>>, <<MonthlyVacation>>, <<WeeklySpa, MonthlyVacation>>}
UnitDays == 0..(MaxDay + 1)

\* the treat fields a ledger can hold: the flag is only set together with the
\* date (line 277), and the date is never unset
TreatLedgers ==
    {[DefaultLedger EXCEPT !.daily_treat_given = f, !.last_treat_date = l] :
        f \in BOOLEAN, l \in {strftime_ymd(t) : t \in UnitDays}}

InitUnit ==
    /\ now \in UnitDays
    /\ \/ \E s \in StreakSamples,
             l \in {NoDate} \cup {strftime_ymd(t) : t \in UnitDays},
             rw \in RewardLists :
             data = [DefaultLedger EXCEPT !.saving_streak = s,
                                          !.last_streak_date = l,
                                          !.rewards_unlocked = rw]
       \/ data \in TreatLedgers
    /\ lastOp = InitOp
    /\ treated_on = NoTreat
    /\ streak_hist = NoHist
    /\ good_days = NoGoodDays
    /\ calls = <<>>

CallUpdateStreak ==
    \E s \in SavingsSamples :
        LET after == update_streak(data, s, now, now, now)
        IN /\ Len(calls) < MaxCalls
           /\ data' = after
           /\ calls' = Append(calls, [fn |-> "update_streak", savings |-> s,
                                      today |-> now, before |-> data,
                                      after |-> after, ret |-> NoReward])
           /\ UNCHANGED <<now, lastOp, treated_on, streak_hist, good_days>>

CallCheckRewards ==
    LET cr == check_rewards(data)
    IN /\ Len(calls) < MaxCalls
       /\ data' = cr.data
       /\ calls' = Append(calls, [fn |-> "check_rewards", savings |-> Frac(0, 1),
                                  today |-> now, before |-> data,
                                  after |-> cr.data, ret |-> cr.new_reward])
       /\ UNCHANGED <<now, lastOp, treated_on, streak_hist, good_days>>

\* ret holds the returned bool as Python prints it
CallCheckDailyReset ==
    LET reset == check_daily_reset(data, now)
    IN /\ Len(calls) < MaxCalls
       /\ data' = reset.data
       /\ calls' = Append(calls, [fn |-> "check_daily_reset", savings |-> Frac(0, 1),
                                  today |-> now, before |-> data,
                                  after |-> reset.data,
                                  ret |-> IF reset.changed THEN "True" ELSE "False"])
       /\ UNCHANGED <<now, lastOp, treated_on, streak_hist, good_days>>

NextUnit == CallUpdateStreak \/ CallCheckRewards \/ CallCheckDailyReset

SpecUnit == InitUnit /\ [][NextUnit]_vars

(* ---------------- get_financial_summary on its own ---------------- *)
\* budgets update_budget_callback accepts: <<income, goal, fixed_expenses>>
SummaryBudgets ==
    {<<0, 0, EmptyDict>>, <<0, 5, EmptyDict>>, <<4, 0, EmptyDict>>,
     <<4, 0, Fixed2>>, <<4, 1, Fixed2>>, <<4, 2, Fixed2>>, <<4, 5, Fixed2>>}

\* what log_expense_callback appends on day t
SummaryExpenses(t) ==
    {[date |-> strftime_ymd(t), amount |-> IF b THEN 3 ELSE 2, is_big_purchase |-> b] :
        b \in BOOLEAN}

\* expense lists as appends leave them by day `t`: in the order of their dates
ExpenseLists(t) ==
    LET all == UNION {SummaryExpenses(u) : u \in 0..t}
        lists == UNION {[1..n -> all] : n \in 0..MaxExpenses}
    IN {l \in lists :
          \A i \in 1..(Len(l) - 1) : strptime_ymd(l[i].date) <= strptime_ymd(l[i + 1].date)}

InitSummary ==
    /\ now \in UnitDays
    /\ \E b \in SummaryBudgets, l \in ExpenseLists(now) :
          data = [DefaultLedger EXCEPT !.monthly_income = b[1],
                                       !.monthly_savings_goal = b[2],
                                       !.fixed_expenses = b[3],
                                       !.daily_expenses = l]
    /\ lastOp = InitOp
    /\ treated_on = NoTreat
    /\ streak_hist = NoHist
    /\ good_days = NoGoodDays
    /\ calls = <<>>

\* one call per ledger: the function does not change it
CallFinancialSummary ==
    \E r \in ClockReads(3) :
        /\ calls = <<>>
        /\ calls' = <<[fn |-> "get_financial_summary", reads |-> r, before |-> data,
                       ret |-> get_financial_summary(data, r[1], r[2], r[3])]>>
        /\ now' = r[3]
        /\ UNCHANGED <<data, lastOp, treated_on, streak_hist, good_days>>

NextSummary == CallFinancialSummary

SpecSummary == InitSummary /\ [][NextSummary]_vars

(* ---------------- a week of ticks ---------------- *)
\* The ticks (page runs and expense logs) of the days 1..WeekEnd, one day more
\* than the Weekly Spa asks for, on the budget of the persisted ledgers.
WeekEnd == WeeklySpaThreshold + 1

\* the clock values of n consecutive reads, as ClockReads, up to day WeekEnd
WeekReads(n) ==
    { [i \in 1..n |-> IF i < k THEN now ELSE now + 1] :
        k \in (IF now < WeekEnd THEN 2..n ELSE {}) \cup {n + 1} }

\* the run of good days after a tick whose summary was computed for day t
\* (line 79) and gave `savings`
GoodDaysAfter(g, savings, t) ==
    IF FracNeg(savings) THEN [n |-> 0, day |-> t, ok |-> FALSE]
    ELSE IF t = g.day THEN g
    ELSE IF t = g.day + 1 /\ g.ok THEN [n |-> g.n + 1, day |-> t, ok |-> TRUE]
    ELSE [n |-> 1, day |-> t, ok |-> TRUE]

InitWeek ==
    /\ now = 1
    /\ data \in PersistedLedgers
    /\ lastOp = InitOp
    /\ treated_on = NoTreat
    /\ streak_hist = NoHist
    /\ calls = <<>>
    /\ good_days = NoGoodDays

WeekPageLoad ==
    \E r \in WeekReads(7) :
        \E res \in {main(data, r)} :
           /\ data' = res.data
           /\ now' = r[7]
           /\ lastOp' = [op |-> "page_load", result |-> res.result,
                         new_reward |-> res.new_reward, fin |-> res.fin,
                         has_fin |-> TRUE, pet |-> res.pet, today |-> r[5]]
           /\ good_days' = GoodDaysAfter(good_days, res.fin.todays_savings, r[2])
           /\ UNCHANGED <<treated_on, streak_hist, calls>>

\* an expense above the allowance of the persisted budgets, which is 0
WeekLogExpense ==
    \E r \in WeekReads(7) :
        \E res \in {log_expense_callback(data, 2, FALSE, r)} :
           /\ Idle
           /\ Len(data.daily_expenses) < MaxExpenses
           /\ data' = res.data
           /\ now' = r[7]
           /\ lastOp' = [op |-> "log_expense", result |-> res.result,
                         new_reward |-> res.new_reward, fin |-> res.fin,
                         has_fin |-> res.has_fin, pet |-> NoPet, today |-> r[5]]
           /\ good_days' = GoodDaysAfter(good_days, res.fin.todays_savings, r[2])
           /\ UNCHANGED <<treated_on, streak_hist, calls>>

WeekRollover ==
    /\ Idle
    /\ now < WeekEnd
    /\ now' = now + 1
    /\ lastOp' = [op |-> "rollover", result |-> "ok", new_reward |-> NoReward,
                  fin |-> NoFin, has_fin |-> FALSE, pet |-> NoPet, today |-> now']
    /\ UNCHANGED <<data, treated_on, streak_hist, calls, good_days>>

NextWeek == WeekPageLoad \/ WeekLogExpense \/ WeekRollover

SpecWeek == InitWeek /\ [][NextWeek]_vars

(* ======================= properties ======================= *)
Today == strftime_ymd(now)
LastExpense == data.daily_expenses[Len(data.daily_expenses)]
UnlockedIn(d, name) == Contains(d.rewards_unlocked, name)
StreakCalls == {i \in 1..Len(calls) : calls[i].fn = "update_streak"}
RewardCalls == {i \in 1..Len(calls) : calls[i].fn = "check_rewards"}
SameStreakCall(i, j) ==
    /\ calls[i].fn = "update_streak" /\ calls[j].fn = "update_streak"
    /\ calls[i].today = calls[j].today
    /\ calls[i].savings = calls[j].savings

\* C1: update_streak called twice in a row with the same (today, todays_savings)
\* leaves (saving_streak, last_streak_date) as the first call left them.
C1_UpdateStreakIdempotent ==
    \A i \in 1..(Len(calls) - 1) :
        SameStreakCall(i, i + 1) =>
            /\ calls[i + 1].after.saving_streak = calls[i].after.saving_streak
            /\ calls[i + 1].after.last_streak_date = calls[i].after.last_streak_date

C1_Witness ==
    /\ Len(calls) >= 2
    /\ SameStreakCall(1, 2)
    /\ calls[1].after.saving_streak = calls[1].before.saving_streak + 1
    /\ calls[2].after.saving_streak = calls[1].after.saving_streak

OneDayBefore(last, t) == last # NoDate /\ strptime_ymd(last) = t - 1
GapBefore(last, t) == last # NoDate /\ strptime_ymd(last) < t - 1

BothCrossed(b) ==
    /\ b.saving_streak >= MonthlyVacationThreshold
    /\ ~UnlockedIn(b, WeeklySpa)
    /\ ~UnlockedIn(b, MonthlyVacation)

OverspendLogged ==
    /\ lastOp.op = "log_expense"
    /\ lastOp.result = "ok"
    /\ ~LastExpense.is_big_purchase
    /\ FracNeg(lastOp.fin.todays_savings)

StreakResetToday ==
    /\ data.saving_streak = 0
    /\ data.last_streak_date = strftime_ymd(lastOp.today)

\* C3 (as stated): after a log_expense that overspends the day, saving_streak
\* is 0, last_streak_date is today and the pet mood of that ledger is Sad.
C3_OverspendResetsAndSad ==
    OverspendLogged =>
        /\ StreakResetToday
        /\ get_pet_status(data, lastOp.fin).mood = "Sad"

\* C3 (amended): after a log_expense that overspends the day, saving_streak is
\* 0 and last_streak_date is today; the pet mood of that ledger is Sad when
\* monthly_income is not 0 and daily_treat_given is false.
C3_OverspendResets ==
    OverspendLogged =>
        /\ StreakResetToday
        /\ (data.monthly_income # 0 /\ ~data.daily_treat_given) =>
               get_pet_status(data, lastOp.fin).mood = "Sad"

C3_Witness ==
    /\ OverspendLogged
    /\ data.monthly_income # 0
    /\ ~data.daily_treat_given
    /\ UnlockedIn(data, WeeklySpa)
    /\ data.saving_streak = 0
    /\ get_pet_status(data, lastOp.fin).mood = "Sad"

\* C4: a streak update from 6 to 7 while "Weekly Spa" is locked is made by a
\* page run or a log_expense, whose check_rewards appends "Weekly Spa" and
\* returns it as the new reward.
C4_SeventhDayUnlocksSpa ==
    [][(/\ data.saving_streak = WeeklySpaThreshold - 1
        /\ data'.saving_streak = WeeklySpaThreshold
        /\ ~UnlockedIn(data, WeeklySpa))
       => (/\ lastOp'.op \in {"page_load", "log_expense"}
           /\ UnlockedIn(data', WeeklySpa)
           /\ lastOp'.new_reward = WeeklySpa)]_vars

C4_Witness ==
    /\ lastOp.op = "log_expense"
    /\ lastOp.result = "ok"
    /\ lastOp.new_reward = WeeklySpa
    /\ data.saving_streak = WeeklySpaThreshold
    /\ data.rewards_unlocked = <<WeeklySpa>>

NoDuplicates(s) == \A i, j \in 1..Len(s) : s[i] = s[j] => i = j

\* C5: rewards_unlocked never loses a name and never holds a name twice,
\* whatever operation runs and also when the streak is reset to 0.
C5_RewardsMonotone ==
    [][/\ \A i \in 1..Len(data.rewards_unlocked) :
              UnlockedIn(data', data.rewards_unlocked[i])
       /\ NoDuplicates(data'.rewards_unlocked)]_vars

C5_Witness ==
    /\ UnlockedIn(data, WeeklySpa)
    /\ data.saving_streak = 0
    /\ lastOp.op = "log_expense"

Unconfigured == [mood |-> "Neutral", message |-> "setup"]

\* the precedence of section 4.4 of the specification
PetPrecedence(monthly_income, todays_savings, todays_expenses, treat) ==
    IF monthly_income = 0 THEN Unconfigured
    ELSE IF treat THEN [mood |-> "Excited", message |-> "yum"]
    ELSE IF FracNeg(todays_savings) THEN [mood |-> "Sad", message |-> "over budget"]
    ELSE IF todays_expenses > 0 THEN [mood |-> "Happy", message |-> "on track"]
    ELSE [mood |-> "Neutral", message |-> "waiting"]

\* C7: the status get_pet_status returns in a page run follows the precedence
\* Unconfigured > Excited > Sad > Happy > Neutral.
C7_PetPrecedence ==
    lastOp.op = "page_load" =>
        lastOp.pet = PetPrecedence(lastOp.fin.monthly_income,
                                   lastOp.fin.todays_savings,
                                   lastOp.fin.todays_expenses,
                                   data.daily_treat_given)

\* C8: in every reachable ledger with monthly_income = 0 the daily allowance
\* is 0 and the pet status is Unconfigured.
C8_ZeroIncomeUnconfigured ==
    data.monthly_income = 0 =>
        LET financials == get_financial_summary(data, now, now, now)
        IN /\ FracZero(financials.daily_allowance)
           /\ get_pet_status(data, financials) = Unconfigured

\* C9: a give_treat on a day on which a give_treat already succeeded fails
\* with the already-treated error and changes nothing in the ledger.
C9_SecondTreatRejected ==
    [][(treated_on = now /\ lastOp'.op = "give_treat")
       => (/\ lastOp'.result = "AlreadyTreatedToday"
           /\ data' = data
           /\ data'.daily_treat_given
           /\ data'.last_treat_date = Today)]_vars

C9_Witness ==
    /\ lastOp.op = "give_treat"
    /\ lastOp.result = "AlreadyTreatedToday"
    /\ treated_on = now
    /\ data.daily_treat_given
    /\ data.last_treat_date = Today

\* a step that is a give_treat
TreatStep == lastOp'.op = "give_treat" /\ lastOp' # lastOp

TreatSuccessRule ==
    lastOp'.result = "ok" =>
        /\ ~data.daily_treat_given
        /\ treated_on # lastOp'.today
        /\ ~FracNeg(lastOp'.fin.todays_savings)
        /\ data' = [data EXCEPT !.daily_treat_given = TRUE,
                                !.last_treat_date = strftime_ymd(lastOp'.today)]

\* C10 (as stated): give_treat succeeds only with no treat today and
\* todays_savings >= 0, then sets daily_treat_given and last_treat_date = today;
\* with todays_savings < 0 it fails with the over-budget error, ledger unchanged.
C10_TreatRules ==
    [][TreatStep =>
          /\ TreatSuccessRule
          /\ (now' = now /\ FracNeg(get_financial_summary(data, now, now, now).todays_savings))
                 => (lastOp'.result = "OverBudget" /\ data' = data)]_vars

\* C10 (amended): as stated, except that with todays_savings < 0 the error is
\* the over-budget one only when daily_treat_given is false; with the flag set
\* the call fails with the already-treated error.  No failure changes the ledger.
C10_TreatRulesAmended ==
    [][TreatStep =>
          /\ TreatSuccessRule
          /\ lastOp'.result # "ok" => data' = data
          /\ (lastOp'.has_fin /\ FracNeg(lastOp'.fin.todays_savings))
                 => lastOp'.result = "OverBudget"
          /\ (now' = now /\ FracNeg(get_financial_summary(data, now, now, now).todays_savings))
                 => lastOp'.result =
                        IF data.daily_treat_given THEN "AlreadyTreatedToday" ELSE "OverBudget"]_vars

C10_Witness ==
    /\ lastOp.op = "give_treat"
    /\ lastOp.result = "OverBudget"
    /\ ~data.daily_treat_given
    /\ data.monthly_income # 0

\* the reset gate has been through this ledger today: check_daily_reset leaves
\* last_treat_date = today (line 162)
GateRanToday == data.last_treat_date = Today

EvaluatesDailyState(op) ==
    \/ op.op = "page_load"
    \/ op.op = "give_treat"
    \/ op.op = "log_expense" /\ op.result = "ok"

\* C11: whichever entry point handles an interaction (page run, log_expense,
\* give_treat), the streak, the treat eligibility and the pet mood are
\* evaluated on a ledger that check_daily_reset has been through on that day:
\* a callback, which holds no call of the gate, starts from such a ledger, and
\* a page run ends with one.  (Steps during which midnight passes are left out.)
C11_ResetGateFirst ==
    [][(now' = now /\ EvaluatesDailyState(lastOp')) =>
          IF lastOp'.op = "page_load" THEN GateRanToday' ELSE GateRanToday]_vars

ResetCalls == {i \in 1..Len(calls) : calls[i].fn = "check_daily_reset"}

\* C12: check_daily_reset on a ledger whose last_treat_date is not today (or
\* is None) clears daily_treat_given, sets last_treat_date = today, changes
\* nothing else and returns True; on a ledger whose last_treat_date is today
\* it changes nothing and returns False, so a treat given today is kept and a
\* second call on the same day is a no-op.
C12_DailyResetGate ==
    \A i \in ResetCalls :
        LET c == calls[i]
        IN /\ c.before.last_treat_date # strftime_ymd(c.today) =>
                /\ c.after = [c.before EXCEPT !.daily_treat_given = FALSE,
                                              !.last_treat_date = strftime_ymd(c.today)]
                /\ c.ret = "True"
           /\ c.before.last_treat_date = strftime_ymd(c.today) =>
                /\ c.after = c.before
                /\ c.ret = "False"
           /\ (i > 1 /\ (i - 1) \in ResetCalls /\ calls[i - 1].today = c.today) =>
                /\ c.after = c.before
                /\ c.ret = "False"

\* the first call clears yesterday's treat, the second one on the same day
\* finds nothing left to do
C12_Witness ==
    /\ Len(calls) >= 2
    /\ calls[1].fn = "check_daily_reset" /\ calls[2].fn = "check_daily_reset"
    /\ calls[1].ret = "True" /\ calls[2].ret = "False"
    /\ calls[1].before.daily_treat_given
    /\ ~calls[2].after.daily_treat_given

\* C13: a log_expense that ends in the validation error (amount <= 0) leaves
\* the whole ledger as it was; every other log_expense appends one expense, and
\* its amount is positive.
C13_NonPositiveAmountRejected ==
    [][lastOp'.op = "log_expense" =>
          IF lastOp'.result = "ValidationError"
          THEN data' = data
          ELSE /\ Len(data'.daily_expenses) = Len(data.daily_expenses) + 1
               /\ LastExpense'.amount > 0]_vars

C13_Witness ==
    /\ lastOp.op = "log_expense"
    /\ lastOp.result = "ValidationError"
    /\ Len(data.daily_expenses) > 0
    /\ data.saving_streak > 0

BudgetOf(d) == <<d.monthly_income, d.monthly_savings_goal, d.fixed_expenses>>

\* C14: an update_budget that is rejected leaves monthly_income,
\* monthly_savings_goal and fixed_expenses as they were, one that is accepted
\* stores an income and a goal that are not negative and fixed expenses that
\* sum to at most the income; so sum(fixed_expenses) <= monthly_income in
\* every ledger the application reaches.
C14_FixedWithinIncome ==
    /\ [](SumValues(data.fixed_expenses) <= data.monthly_income)
    /\ [][lastOp'.op = "update_budget" =>
             IF lastOp'.result = "ok"
             THEN /\ data'.monthly_income >= 0
                  /\ data'.monthly_savings_goal >= 0
                  /\ SumValues(data'.fixed_expenses) <= data'.monthly_income
             ELSE BudgetOf(data') = BudgetOf(data)]_vars

\* fixed expenses above the income are refused while a budget is in place
C14_Witness ==
    /\ lastOp.op = "update_budget"
    /\ lastOp.result = "DomainRuleViolation"
    /\ data.monthly_income > 0
    /\ SumValues(data.fixed_expenses) > 0

SummaryCalls == {i \in 1..Len(calls) : calls[i].fn = "get_financial_summary"}
Disposable(d) == d.monthly_income - SumValues(d.fixed_expenses) - d.monthly_savings_goal
\* days from day t to the end of its month, both included
DaysLeft(t) == MonthLen - strftime_ymd(t)[2] + 1

\* C15: for every budget and every day of the month remaining_days is the
\* number of days left in the month and at least 1, daily_allowance is
\* max(0, disposable / remaining_days), so never negative and 0 when disposable
\* is 0 or less, and daily_used_percent lies within 0..100 and is 0 when the
\* allowance is 0.
C15_AllowanceAndPercentBounds ==
    \A i \in SummaryCalls :
        LET f == calls[i].ret
            disposable == Disposable(calls[i].before)
            days == DaysLeft(calls[i].reads[3])
        IN /\ f.remaining_days = days
           /\ f.remaining_days >= 1
           /\ f.daily_allowance.den > 0
           /\ ~FracNeg(f.daily_allowance)
           /\ FracEq(f.daily_allowance,
                     IF disposable > 0 THEN Frac(disposable, days) ELSE Frac(0, 1))
           /\ disposable <= 0 => FracZero(f.daily_allowance)
           /\ f.daily_used_percent.den > 0
           /\ f.daily_used_percent.num >= 0
           /\ f.daily_used_percent.num <= 100 * f.daily_used_percent.den
           /\ FracZero(f.daily_allowance) => FracZero(f.daily_used_percent)

\* money was spent today on a budget whose disposable income is negative
C15_Witness ==
    /\ Len(calls) = 1
    /\ calls[1].fn = "get_financial_summary"
    /\ Disposable(calls[1].before) < 0
    /\ calls[1].ret.todays_expenses > 0
    /\ FracZero(calls[1].ret.daily_used_percent)

RECURSIVE SumAt(_, _)
\* the amounts of the expenses of list s at the positions I, added up
SumAt(s, I) ==
    IF I = {} THEN 0
    ELSE LET i == CHOOSE x \in I : TRUE IN s[i].amount + SumAt(s, I \ {i})

SmallToday(d, day) ==
    {i \in 1..Len(d.daily_expenses) :
        /\ ~d.daily_expenses[i].is_big_purchase
        /\ d.daily_expenses[i].date = strftime_ymd(day)}
SmallThisMonth(d, day) ==
    {i \in 1..Len(d.daily_expenses) :
        /\ ~d.daily_expenses[i].is_big_purchase
        /\ d.daily_expenses[i].date[1] = strftime_ymd(day)[1]}
BigPurchaseLogged ==
    /\ lastOp.op = "log_expense" /\ lastOp.result = "ok"
    /\ LastExpense.is_big_purchase

\* C16: a log_expense of a big purchase appends the
\* expense and leaves todays_spent, total_spent_this_month and todays_savings
\* as they were, and it never takes saving_streak from a positive value to 0;
\* every summary counts in todays_spent the expenses of today that are not big
\* purchases and in total_spent_this_month those of the current month.
\* (Steps during which midnight passes are left out.)
C16_BigPurchaseExcluded ==
    [][now' = now =>
         /\ BigPurchaseLogged' =>
               LET before == get_financial_summary(data, now, now, now)
                   after == lastOp'.fin
               IN /\ data'.daily_expenses = Append(data.daily_expenses, LastExpense')
                  /\ after.todays_expenses = before.todays_expenses
                  /\ after.total_spent_month = before.total_spent_month
                  /\ FracEq(after.todays_savings, before.todays_savings)
                  /\ ~(data.saving_streak > 0 /\ data'.saving_streak = 0)
         /\ lastOp'.has_fin =>
               /\ lastOp'.fin.todays_expenses =
                      SumAt(data'.daily_expenses, SmallToday(data', now))
               /\ lastOp'.fin.total_spent_month =
                      SumAt(data'.daily_expenses, SmallThisMonth(data', now))]_vars

\* a big purchase above the daily allowance was logged and the streak goes on
C16_Witness ==
    /\ BigPurchaseLogged
    /\ lastOp.today = now
    /\ data.monthly_income > 0
    /\ LastExpense.amount * lastOp.fin.daily_allowance.den > lastOp.fin.daily_allowance.num
    /\ ~FracNeg(lastOp.fin.todays_savings)
    /\ data.saving_streak > 0

NotEarlier(before, after) ==
    before # NoDate => (after # NoDate /\ strptime_ymd(after) >= strptime_ymd(before))

\* C17: the clock never goes back, and no step moves last_streak_date or
\* last_treat_date, once set, to an earlier date or back to None.
C17_DatesNeverGoBack ==
    [][/\ now' >= now
       /\ NotEarlier(data.last_streak_date, data'.last_streak_date)
       /\ NotEarlier(data.last_treat_date, data'.last_treat_date)]_vars

\* both dates were stamped on the first day of the session and again later on
C17_Witness ==
    /\ now > 1
    /\ data.last_streak_date = Today
    /\ data.last_treat_date = Today
    /\ data.saving_streak = 0
    /\ data.daily_treat_given

ExpenseLogged == lastOp.op = "log_expense" /\ lastOp.result = "ok"

\* C18: a successful log_expense leaves daily_expenses as it was with one
\* expense added at the end, dated with the day of the call; every other step
\* leaves the list as it was.
C18_ExpensesAppendOnly ==
    [][IF ExpenseLogged'
       THEN /\ Len(data'.daily_expenses) = Len(data.daily_expenses) + 1
            /\ data'.daily_expenses = Append(data.daily_expenses, LastExpense')
            /\ LastExpense'.date = Today
       ELSE data'.daily_expenses = data.daily_expenses]_vars

\* an expense was added behind one of an earlier day
C18_Witness ==
    /\ ExpenseLogged
    /\ Len(data.daily_expenses) = 2
    /\ strptime_ymd(data.daily_expenses[1].date) < strptime_ymd(data.daily_expenses[2].date)
    /\ data.daily_expenses[1].amount > 0

\* C19: update_streak raises saving_streak at most once on one calendar day,
\* and on a day on which it has reset the streak for a negative todays_savings
\* the streak is 0 in every later state of that day, whatever page runs,
\* expenses, budget updates and treats follow.
C19_OncePerDay ==
    /\ streak_hist.inc_n <= 1
    /\ streak_hist.reset_day = now => data.saving_streak = 0

\* the streak was raised in the morning and reset by an overspend; a budget
\* update has brought todays_savings back to 0 or more and the page has run
C19_Witness ==
    /\ streak_hist.inc_day = now /\ streak_hist.inc_n = 1
    /\ streak_hist.reset_day = now
    /\ lastOp.op = "page_load" /\ lastOp.today = now
    /\ ~FracNeg(lastOp.fin.todays_savings)
    /\ lastOp.fin.todays_expenses > 0
    /\ data.saving_streak = 0

\* C20: after a page run or a successful log_expense saving_streak >= 7 comes
\* with "Weekly Spa" unlocked and saving_streak >= 30 with "Monthly Vacation"
\* unlocked, and no ledger has "Monthly Vacation" unlocked without "Weekly Spa".
C20_RewardsFollowStreak ==
    /\ (lastOp.op = "page_load" \/ ExpenseLogged) =>
          /\ data.saving_streak >= WeeklySpaThreshold => UnlockedIn(data, WeeklySpa)
          /\ data.saving_streak >= MonthlyVacationThreshold =>
                UnlockedIn(data, MonthlyVacation)
    /\ UnlockedIn(data, MonthlyVacation) => UnlockedIn(data, WeeklySpa)

\* the page run of the thirtieth day in a row
C20_Witness ==
    /\ lastOp.op = "page_load"
    /\ data.saving_streak = MonthlyVacationThreshold
    /\ data.rewards_unlocked = <<WeeklySpa, MonthlyVacation>>

\* the day log_expense_callback stamped on the expense it appended (line 223)
StampedDay == strptime_ymd(LastExpense.date)

\* C21: a log_expense works with one calendar day: the day stamped on the
\* expense is the day update_streak takes as today and the day the summary is
\* computed for, also when midnight passes between the reads of the clock; so
\* an expense that overspends the day it is stamped with leaves saving_streak
\* at 0.
C21_OneDayPerLogExpense ==
    [][ExpenseLogged' =>
          LET day == StampedDay'
              summary == get_financial_summary(data', day, day, day)
          IN /\ lastOp'.today = day
             /\ lastOp'.fin = summary
             /\ FracNeg(summary.todays_savings) => data'.saving_streak = 0]_vars

\* C22: when each of 7 days in a row has had a tick and every tick of those
\* days saw todays_savings >= 0, saving_streak is at least 7 and "Weekly Spa"
\* is unlocked.
C22_SevenGoodDaysUnlockSpa ==
    good_days.n >= WeeklySpaThreshold =>
        /\ data.saving_streak >= WeeklySpaThreshold
        /\ UnlockedIn(data, WeeklySpa)

====
